---- MODULE Spec2Model ----
(***************************************************************************)
(* AppStack (src/main.py): a Qt widget that re-runs the code of the        *)
(* selected editor tab 1.5 s after the last edit.  The model covers the    *)
(* debounce timer (run_timer), the dispatcher (run_code, save_code,        *)
(* execute_code), the scratch files it leaves behind, and the GUI preview  *)
(* child processes (run_gui_preview, on_gui_finished, clear_output).       *)
(*                                                                         *)
(* Every slot runs to completion on the single Qt event loop, so every     *)
(* slot is one atomic action.  What the toolchain, the file system and     *)
(* the preview children do is chosen by the environment.  SpecSteps splits *)
(* run_code at its blocking subprocess.run calls, and SpecDet runs the     *)
(* program against a toolchain that answers the same program the same way. *)
(***************************************************************************)
EXTENDS Integers, Sequences, FiniteSets, TLC

(* ----------------------------- bounds ---------------------------------- *)

\* Edits (textChanged signals) the user makes in one run.
MaxChanges == 2

\* Preview children started in one run.
MaxProcs == 2

(* --------------------------- program data ------------------------------ *)

\* language_cmds: the editor tabs, one per key.
language_cmds == {"Python", "Rust", "Go", "C", "C++"}

\* run_timer.setInterval(1500), in milliseconds.
Interval == 1500

\* Editor contents, as sequences of words; "x in code" is containment of a word.
Texts == { <<>>, <<"print">>, <<"import", "Tkinter">>, <<"PyQt6", "print">> }

Contains(code, marker) == \E i \in 1..Len(code) : code[i] = marker

\* The condition of run_code's if: a Python text naming a GUI toolkit.
IsGuiPreview(lang, code) ==
    lang = "Python" /\ (Contains(code, "Tkinter") \/ Contains(code, "PyQt6"))

\* The binary each compiled language leaves: -o appstack_temp/temp_exec for gcc
\* and g++, ./temp_code (rustc's default, in the working directory) for Rust.
Binaries == {"temp_exec", "temp_code"}

BinaryOf(lang) == IF lang = "Rust" THEN "temp_code" ELSE "temp_exec"

Compiled == {"C", "C++", "Rust"}

\* The source file execute_code writes for a language (none for Python).
SourceLangs == {"C", "C++", "Rust", "Go"}

(* ------------------- what a subprocess.run call returns ---------------- *)

\* A step (compile or run) either returns a CompletedProcess or raises.  The
\* streams are tagged by step so that a payload tells where it came from.
Exit(rc, so, se) == [kind |-> "exit", rc |-> rc, stdout |-> so, stderr |-> se]

\* Exit code 0, with output and with warnings on stderr.
Ok(step) == Exit(0, <<step \o ".stdout">>, <<step \o ".stderr">>)

\* Exit code 0 and nothing on stdout.
Quiet(step) == Exit(0, <<>>, <<step \o ".stderr">>)

\* A non-zero exit code, with partial output and a diagnostic.
Failed(step) == Exit(1, <<step \o ".stdout">>, <<step \o ".stderr">>)

\* A non-zero exit code and nothing on stderr.
Silent(step) == Exit(1, <<step \o ".stdout">>, <<>>)

\* subprocess.run raises: the executable is missing, or (text=True) the
\* output is not valid UTF-8.
Raised == [kind |-> "raise", rc |-> 1, stdout |-> <<>>, stderr |-> <<>>]

StepResults(step) == { Ok(step), Quiet(step), Failed(step), Silent(step), Raised }

NoStep == [kind |-> "none", rc |-> 0, stdout |-> <<>>, stderr |-> <<>>]

\* str(e) of the exception execute_code catches.
ExceptionText == <<"exception">>

\* The file operation of one dispatch that fails, if any.
Faults == {"none", "save", "read", "write", "remove"}

(* ------------------------------ state ---------------------------------- *)

VARIABLES
    tab,           \* tabs.currentIndex(), as the language of the selected tab
    buffers,       \* code_editors[lang].toPlainText()
    timerActive,   \* run_timer.isActive()
    remaining,     \* ms until run_timer times out, while it is active
    output_area,   \* the text of the output display
    gui_preview,   \* the text of the preview label
    procs,         \* every QProcess run_gui_preview created, in creation order
    gui_process,   \* the current handle: an index of procs, 0 for the QProcess() of __init__
    desc,          \* appstack_temp/temp_code_<lang>.json
    src,           \* appstack_temp/temp_code.<ext>
    bin,           \* whether each binary exists
    hostAlive,     \* FALSE once an exception has left a slot
    changes,       \* history: textChanged signals handled
    dispatches,    \* history: calls of run_code
    sinceChange,   \* history: ms since the last of them, up to Interval
    firedSince,    \* history: dispatches since the last of them, up to 2
    clearedSince,  \* history: a clear was handled after it, before any dispatch
    ev,            \* history: the slot of AppStack the last step ran ("none" when
                   \* it ran none), with its inputs
    inFlight,      \* calls of run_code that wait in subprocess.run (SpecSteps)
    call,          \* the locals current_lang and code of such a call
    toolchain,     \* history: what the toolchain did with each program it was given (SpecDet)
    shown          \* history: what the output area showed for each dispatch (SpecDet)

vars == << tab, buffers, timerActive, remaining, output_area, gui_preview, procs,
           gui_process, desc, src, bin, hostAlive, changes, dispatches,
           sinceChange, firedSince, clearedSince, ev, inFlight, call, toolchain,
           shown >>

\* A slot that runs to completion in one step leaves no call waiting.
stepVars == << inFlight, call >>
detVars == << toolchain, shown >>
Atomic == UNCHANGED << stepVars, detVars >>

NoFile == [exists |-> FALSE, language |-> "", code |-> <<>>]

\* The text of the preview label.
LabelInitial == "GUI Preview (for Tkinter and PyQt6 apps)"
LabelFinished == "GUI Preview Finished"
LabelError == "Error in GUI code."

\* self.gui_process = QProcess() in __init__: never started.
InitialProcess ==
    [state |-> "NotRunning", alive |-> FALSE, signalled |-> FALSE,
     exitStatus |-> "NormalExit", code |-> <<>>]

Proc(i) == IF i = 0 THEN InitialProcess ELSE procs[i]

Event(op) ==
    [op |-> op, lang |-> "", code |-> <<>>, path |-> "", fault |-> "none",
     compile |-> NoStep, run |-> NoStep, proc |-> 0, status |-> ""]

NoCall == [lang |-> "", code |-> <<>>]

\* The state after AppStack() when the scratch directory holds the source
\* files srcs and the binaries bins.
Started(srcs, bins) ==
    /\ tab = "Python"
    /\ buffers = [l \in language_cmds |-> <<>>]
    /\ timerActive = FALSE
    /\ remaining = Interval
    /\ output_area = <<>>
    /\ gui_preview = LabelInitial
    /\ procs = <<>>
    /\ gui_process = 0
    /\ desc = [l \in language_cmds |-> NoFile]
    /\ src = srcs
    /\ bin = bins
    /\ hostAlive = TRUE
    /\ changes = 0
    /\ dispatches = 0
    /\ sinceChange = Interval
    /\ firedSince = 0
    /\ clearedSince = FALSE
    /\ ev = Event("init")
    /\ inFlight = 0
    /\ call = NoCall
    /\ toolchain = {}
    /\ shown = {}

\* The first start: os.makedirs has just created an empty scratch directory.
Init == Started([l \in SourceLangs |-> NoFile], [b \in Binaries |-> FALSE])

Min(a, b) == IF a < b THEN a ELSE b

(* ----------------------- the user and the clock ------------------------ *)

\* The user selects another tab.  No slot of AppStack is connected to it.
SelectTab(l) ==
    /\ hostAlive
    /\ l # tab
    /\ tab' = l
    /\ ev' = Event("none")
    /\ UNCHANGED << buffers, timerActive, remaining, output_area, gui_preview, procs,
                    gui_process, desc, src, bin, hostAlive, changes, dispatches, sinceChange,
                    firedSince, clearedSince >>

\* 750 ms pass without an event.  An active timer times out before time passes
\* its deadline, and a child that was started has reported it by then.
Tick ==
    /\ hostAlive
    /\ timerActive => remaining > 0
    /\ \A i \in 1..Len(procs) : procs[i].state # "Starting"
    /\ timerActive \/ sinceChange < Interval
    /\ remaining' = IF timerActive THEN remaining - 750 ELSE remaining
    /\ sinceChange' = Min(sinceChange + 750, Interval)
    /\ ev' = Event("none")
    /\ UNCHANGED << tab, buffers, timerActive, output_area, gui_preview, procs,
                    gui_process, desc, src, bin, hostAlive, changes, dispatches, firedSince,
                    clearedSince >>

RunTimerStart_OnlyWhenIdle(active, rem) ==
    IF active THEN [active |-> TRUE, remaining |-> rem]
    ELSE [active |-> TRUE, remaining |-> Interval]

\* run_timer.start(): (re)starts the countdown from the full interval.
RunTimerStart(active, rem) == [active |-> TRUE, remaining |-> Interval]

\* The user edits the selected editor; its textChanged runs on_code_change.
on_code_change(text) ==
    /\ hostAlive
    /\ changes < MaxChanges
    /\ text # buffers[tab]
    /\ buffers' = [buffers EXCEPT ![tab] = text]
    /\ timerActive' = RunTimerStart(timerActive, remaining).active
    /\ remaining' = RunTimerStart(timerActive, remaining).remaining
    /\ changes' = changes + 1
    /\ sinceChange' = 0
    /\ firedSince' = 0
    /\ clearedSince' = FALSE
    /\ ev' = Event("on_code_change")
    /\ UNCHANGED << tab, output_area, gui_preview, procs, gui_process, desc, src,
                    bin, hostAlive, dispatches >>

(* --------------------------- the dispatcher ---------------------------- *)

\* save_code: json.dump({"language": language, "code": code}) into the
\* descriptor of the language.
save_code(language, code) == [exists |-> TRUE, language |-> language, code |-> code]

\* json.load(open(code_file))["code"]
LoadCode(d) == d.code

\* output = process.stdout if process.returncode == 0 else process.stderr
Payload(p) == IF p.rc = 0 THEN p.stdout ELSE p.stderr

\* What one call of execute_code leaves: its return value, the files, and the
\* steps and the fault that took place.
Executed(output, bins, srcs, c, r, fault) ==
    [output |-> output, bin |-> bins, src |-> srcs, compile |-> c, run |-> r,
     fault |-> fault]

WriteSource_SharedName(language, d, srcs, fault) ==
    [srcs EXCEPT !["C"] = [exists |-> TRUE, language |-> language, code |-> LoadCode(d)]]

WriteSource_Append(language, d, srcs, fault) ==
    [srcs EXCEPT ![language] = [exists |-> TRUE, language |-> language,
                                code |-> srcs[language].code \o LoadCode(d)]]

\* with open(filename, "w") as file: file.write(json.load(open(code_file))["code"])
\* The file is opened (and truncated) before the descriptor is read.
WriteSource(language, d, srcs, fault) ==
    IF fault = "write" THEN srcs
    ELSE IF fault = "read"
         THEN [srcs EXCEPT ![language] = [exists |-> TRUE, language |-> language, code |-> <<>>]]
         ELSE [srcs EXCEPT ![language] = [exists |-> TRUE, language |-> language, code |-> LoadCode(d)]]

\* The Python branch: python3 -c <code>.
ExecutePython(d, bins, srcs, fault, r) ==
    IF fault = "read" THEN Executed(ExceptionText, bins, srcs, NoStep, NoStep, "read")
    ELSE IF r.kind = "raise" THEN Executed(ExceptionText, bins, srcs, NoStep, r, "none")
    ELSE Executed(Payload(r), bins, srcs, NoStep, r, "none")

\* The C and C++ branch: compile to temp_exec, run it, remove it if it exists.
ExecuteC(language, d, bins, srcs, fault, c, r) ==
    LET srcs1 == WriteSource(language, d, srcs, fault)
        built == [bins EXCEPT !["temp_exec"] = TRUE]
        gone  == [bins EXCEPT !["temp_exec"] = FALSE]
    IN  IF fault \in {"read", "write"}
        THEN Executed(ExceptionText, bins, srcs1, NoStep, NoStep, fault)
        ELSE IF c.kind = "raise"
        THEN Executed(ExceptionText, bins, srcs1, c, NoStep, "none")
        ELSE IF c.rc = 0
        THEN IF r.kind = "raise"
             THEN Executed(ExceptionText, built, srcs1, c, r, "none")
             ELSE IF fault = "remove"
                  THEN Executed(ExceptionText, built, srcs1, c, r, "remove")
                  ELSE Executed(Payload(r), gone, srcs1, c, r, "none")
        ELSE IF bins["temp_exec"]
             THEN IF fault = "remove"
                  THEN Executed(ExceptionText, bins, srcs1, c, NoStep, "remove")
                  ELSE Executed(c.stderr, gone, srcs1, c, NoStep, "none")
             ELSE Executed(c.stderr, bins, srcs1, c, NoStep, "none")

\* The Rust branch: rustc leaves ./temp_code, removed only after it has run.
ExecuteRust(d, bins, srcs, fault, c, r) ==
    LET srcs1 == WriteSource("Rust", d, srcs, fault)
        built == [bins EXCEPT !["temp_code"] = TRUE]
        gone  == [bins EXCEPT !["temp_code"] = FALSE]
    IN  IF fault \in {"read", "write"}
        THEN Executed(ExceptionText, bins, srcs1, NoStep, NoStep, fault)
        ELSE IF c.kind = "raise"
        THEN Executed(ExceptionText, bins, srcs1, c, NoStep, "none")
        ELSE IF c.rc = 0
        THEN IF r.kind = "raise"
             THEN Executed(ExceptionText, built, srcs1, c, r, "none")
             ELSE IF fault = "remove"
                  THEN Executed(ExceptionText, built, srcs1, c, r, "remove")
                  ELSE Executed(Payload(r), gone, srcs1, c, r, "none")
        ELSE Executed(c.stderr, bins, srcs1, c, NoStep, "none")

\* The Go branch: go run <source file>.
ExecuteGo(d, bins, srcs, fault, r) ==
    LET srcs1 == WriteSource("Go", d, srcs, fault)
    IN  IF fault \in {"read", "write"}
        THEN Executed(ExceptionText, bins, srcs1, NoStep, NoStep, fault)
        ELSE IF r.kind = "raise" THEN Executed(ExceptionText, bins, srcs1, NoStep, r, "none")
        ELSE Executed(Payload(r), bins, srcs1, NoStep, r, "none")

\* execute_code(language, code_file): d is what code_file holds; c and r are
\* what the compile and the run step do if they are reached.
execute_code(language, d, bins, srcs, fault, c, r) ==
    IF language = "Python" THEN ExecutePython(d, bins, srcs, fault, r)
    ELSE IF language \in {"C", "C++"} THEN ExecuteC(language, d, bins, srcs, fault, c, r)
    ELSE IF language = "Rust" THEN ExecuteRust(d, bins, srcs, fault, c, r)
    ELSE ExecuteGo(d, bins, srcs, fault, r)

(* ------------------------- the preview children ------------------------ *)

Terminate_Missing(ps, cur) == ps

\* if self.gui_process and self.gui_process.state() == Running: terminate()
\* The signal is sent; nothing waits for the child to exit.
Terminate(ps, cur) ==
    IF cur # 0 /\ ps[cur].state = "Running"
    THEN [ps EXCEPT ![cur].signalled = TRUE]
    ELSE ps

\* QProcess(self); setProgram; setArguments(["-c", code]); start()
NewProcess(code) ==
    [state |-> "Starting", alive |-> TRUE, signalled |-> FALSE,
     exitStatus |-> "NormalExit", code |-> code]

run_gui_preview_Waits(ps, cur, code) ==
    [procs |-> Append(
         IF cur # 0 /\ ps[cur].state = "Running"
         THEN [ps EXCEPT ![cur].signalled = TRUE, ![cur].state = "NotRunning",
                         ![cur].alive = FALSE, ![cur].exitStatus = "CrashExit"]
         ELSE ps,
         NewProcess(code)),
     gui_process |-> Len(ps) + 1]

\* run_gui_preview(code): the processes and the current handle it leaves.  The
\* replaced QProcess is a child object of the widget and keeps running.
run_gui_preview(ps, cur, code) ==
    [procs |-> Append(Terminate(ps, cur), NewProcess(code)),
     gui_process |-> Len(ps) + 1]

\* on_gui_finished: the label, from the exit status of the current handle.
on_gui_finished(ps, cur) ==
    IF ps[cur].exitStatus = "NormalExit" THEN LabelFinished ELSE LabelError

\* The child of procs[i] has started: its QProcess goes from Starting to Running.
ProcessStarted(i) ==
    /\ hostAlive
    /\ i \in 1..Len(procs)
    /\ procs[i].state = "Starting"
    /\ procs' = [procs EXCEPT ![i].state = "Running"]
    /\ ev' = Event("none")
    /\ UNCHANGED << tab, buffers, timerActive, remaining, output_area, gui_preview,
                    gui_process, desc, src, bin, hostAlive, changes, dispatches, sinceChange,
                    firedSince, clearedSince >>

\* The child of procs[i] exits, normally or killed by a signal; its QProcess
\* emits finished, which runs on_gui_finished.
ProcessFinished(i, status) ==
    /\ hostAlive
    /\ i \in 1..Len(procs)
    /\ procs[i].state = "Running"
    /\ procs' = [procs EXCEPT ![i].state = "NotRunning", ![i].alive = FALSE,
                              ![i].exitStatus = status]
    /\ gui_preview' = on_gui_finished(procs', gui_process)
    /\ ev' = [Event("on_gui_finished") EXCEPT !.proc = i, !.status = status]
    /\ UNCHANGED << tab, buffers, timerActive, remaining, output_area, gui_process,
                    desc, src, bin, hostAlive, changes, dispatches, sinceChange, firedSince,
                    clearedSince >>

(* ------------------------------ the slots ------------------------------ *)

RunTimerStop_Missing(active) == active

\* run_timer.stop()
RunTimerStop(active) == FALSE

Snapshot_FirstTab(selected, bufs) == [lang |-> "Python", code |-> bufs["Python"]]

\* current_lang and code, as run_code reads them when it runs.
Snapshot(selected, bufs) == [lang |-> selected, code |-> bufs[selected]]

\* run_timer times out and runs run_code.  fault, c and r are what the file
\* system and the toolchain do during this call.
run_code(fault, c, r) ==
    /\ hostAlive
    /\ timerActive
    /\ remaining = 0
    /\ LET snap == Snapshot(tab, buffers)
           e    == [Event("run_code") EXCEPT !.lang = snap.lang, !.code = snap.code]
       IN
       /\ timerActive' = RunTimerStop(timerActive)
       /\ remaining' = Interval
       /\ firedSince' = Min(firedSince + 1, 2)
       /\ IF fault = "save"
          THEN \* open(filename, "w") raises in save_code: nothing catches it, and
               \* PyQt ends the process on an exception that leaves a slot
               /\ hostAlive' = FALSE
               /\ ev' = [e EXCEPT !.path = "escaped", !.fault = "save"]
               /\ UNCHANGED << output_area, procs, gui_process, desc, src, bin >>
          ELSE
               /\ desc' = [desc EXCEPT ![snap.lang] = save_code(snap.lang, snap.code)]
               /\ hostAlive' = hostAlive
               /\ IF IsGuiPreview(snap.lang, snap.code)
                  THEN /\ Len(procs) < MaxProcs
                       /\ procs' = run_gui_preview(procs, gui_process, snap.code).procs
                       /\ gui_process' = run_gui_preview(procs, gui_process, snap.code).gui_process
                       /\ ev' = [e EXCEPT !.path = "preview"]
                       /\ UNCHANGED << output_area, src, bin >>
                  ELSE LET x == execute_code(snap.lang, desc'[snap.lang], bin, src, fault, c, r)
                       IN  /\ output_area' = x.output
                           /\ bin' = x.bin
                           /\ src' = x.src
                           /\ ev' = [e EXCEPT !.path = "plain", !.fault = x.fault,
                                              !.compile = x.compile, !.run = x.run]
                           /\ UNCHANGED << procs, gui_process >>
    /\ dispatches' = dispatches + 1
    /\ UNCHANGED << tab, buffers, gui_preview, changes, sinceChange, clearedSince >>

clear_output_StopsTimer ==
    /\ hostAlive
    /\ output_area' = <<>>
    /\ procs' = Terminate(procs, gui_process)
    /\ timerActive' = FALSE
    /\ clearedSince' = (clearedSince \/ (changes > 0 /\ firedSince = 0))
    /\ ev' = Event("clear_output")
    /\ UNCHANGED << tab, buffers, remaining, gui_preview, gui_process,
                    desc, src, bin, hostAlive, changes, dispatches, sinceChange,
                    firedSince >>

\* The Clear Output button.
clear_output ==
    /\ hostAlive
    /\ output_area' = <<>>
    /\ procs' = Terminate(procs, gui_process)
    /\ clearedSince' = (clearedSince \/ (changes > 0 /\ firedSince = 0))
    /\ ev' = Event("clear_output")
    /\ UNCHANGED << tab, buffers, timerActive, remaining, gui_preview, gui_process,
                    desc, src, bin, hostAlive, changes, dispatches, sinceChange, firedSince >>

(* --------------------------- the specification ------------------------- *)

\* Only the compiled languages have a compile step.
CompileResults(lang, compiles) == IF lang \in Compiled THEN compiles ELSE {NoStep}

\* The user edits, switches tabs and clears; previews start and end; the
\* toolchain works or reports an error, and the descriptor may be unwritable.
UiTabs == {"Python", "C", "Go"}

Next ==
    \/ \E l \in UiTabs : SelectTab(l) /\ Atomic
    \/ Tick /\ Atomic
    \/ \E text \in Texts : on_code_change(text) /\ Atomic
    \/ \E fault \in {"none", "save"},
          c \in CompileResults(tab, {Ok("compile"), Failed("compile")}),
          r \in {Ok("run"), Failed("run")} :
          run_code(fault, c, r) /\ Atomic
    \/ clear_output /\ Atomic
    \/ \E i \in 1..MaxProcs : ProcessStarted(i) /\ Atomic
    \/ \E i \in 1..MaxProcs, status \in {"NormalExit", "CrashExit"} :
          ProcessFinished(i, status) /\ Atomic

Spec == Init /\ [][Next]_vars

\* The same program under a fair event loop: time passes, a timer that is due
\* times out (the slot returns, every toolchain step terminates), and a child
\* that was started reports it.
Fairness ==
    /\ WF_vars(Tick /\ Atomic)
    /\ WF_vars(\E fault \in {"none", "save"},
                  c \in CompileResults(tab, {Ok("compile"), Failed("compile")}),
                  r \in {Ok("run"), Failed("run")} :
                  run_code(fault, c, r) /\ Atomic)
    /\ WF_vars(\E i \in 1..MaxProcs : ProcessStarted(i) /\ Atomic)

SpecLive == Init /\ [][Next]_vars /\ Fairness

\* The user edits plain programs in every language; every file operation may
\* fail and every step may end in every way.
PlainTexts == { <<>>, <<"print">> }

NextExec ==
    \/ \E l \in language_cmds : SelectTab(l) /\ Atomic
    \/ Tick /\ Atomic
    \/ \E text \in PlainTexts : on_code_change(text) /\ Atomic
    \/ \E fault \in Faults,
          c \in CompileResults(tab, StepResults("compile")),
          r \in StepResults("run") :
          run_code(fault, c, r) /\ Atomic

SpecExec == Init /\ [][NextExec]_vars

(* ---------------------- a deterministic toolchain ---------------------- *)

\* An earlier session may have left source files and binaries in the scratch
\* directory: os.makedirs runs only when the directory does not exist.
StaleFile(l) == [exists |-> TRUE, language |-> l, code |-> <<"stale">>]

InitLeftover ==
    \E stale \in BOOLEAN :
        Started([l \in SourceLangs |-> IF stale THEN StaleFile(l) ELSE NoFile],
                [b \in Binaries |-> stale])

\* The program a dispatch of language hands to the toolchain: the argument of
\* python3 -c, or what the source file holds when the compiler reads it.
ProgramSeen(language, d, srcs) ==
    IF language \in SourceLangs THEN srcs[language].code ELSE LoadCode(d)

\* run_code against a toolchain that does with a program what it did with the
\* same program before: the steps that ran end as they ended then.
run_code_deterministic(c, r) ==
    /\ run_code("none", c, r)
    /\ LET seen == ProgramSeen(ev'.lang, desc'[ev'.lang], src')
           did  == [lang |-> ev'.lang, program |-> seen,
                    compile |-> ev'.compile, run |-> ev'.run]
       IN  /\ \A t \in toolchain :
                  (t.lang = did.lang /\ t.program = did.program) => t = did
           /\ toolchain' = toolchain \cup {did}
           /\ shown' = shown \cup {[lang |-> ev'.lang, code |-> ev'.code,
                                     output |-> output_area']}
    /\ UNCHANGED stepVars

NextDet ==
    \/ \E l \in language_cmds : SelectTab(l) /\ Atomic
    \/ Tick /\ Atomic
    \/ \E text \in PlainTexts : on_code_change(text) /\ Atomic
    \/ \E c \in CompileResults(tab, {Ok("compile"), Failed("compile"), Raised}),
          r \in {Ok("run"), Failed("run"), Raised} :
          run_code_deterministic(c, r)

SpecDet == InitLeftover /\ [][NextDet]_vars

(* ------------------- run_code at its blocking calls -------------------- *)

EventLoopRuns_WhileWaiting(waiting) == TRUE

\* subprocess.run returns when the child has exited: the thread of the event
\* loop waits inside execute_code, and no timer, signal or user event is
\* delivered while a call waits there.
EventLoopRuns(waiting) == waiting = 0

\* run_code up to the call of execute_code or the return of run_gui_preview
\* (which only starts the child): the timer is stopped, the tab and the text
\* are read and the descriptor is written.
run_code_call(fault) ==
    /\ hostAlive
    /\ timerActive
    /\ remaining = 0
    /\ EventLoopRuns(inFlight)
    /\ LET snap == Snapshot(tab, buffers)
           e    == [Event("run_code") EXCEPT !.lang = snap.lang, !.code = snap.code]
       IN
       /\ timerActive' = RunTimerStop(timerActive)
       /\ remaining' = Interval
       /\ firedSince' = Min(firedSince + 1, 2)
       /\ IF fault = "save"
          THEN /\ hostAlive' = FALSE
               /\ ev' = [e EXCEPT !.path = "escaped", !.fault = "save"]
               /\ UNCHANGED << output_area, procs, gui_process, desc, src, bin, stepVars >>
          ELSE
               /\ desc' = [desc EXCEPT ![snap.lang] = save_code(snap.lang, snap.code)]
               /\ hostAlive' = hostAlive
               /\ IF IsGuiPreview(snap.lang, snap.code)
                  THEN /\ Len(procs) < MaxProcs
                       /\ procs' = run_gui_preview(procs, gui_process, snap.code).procs
                       /\ gui_process' = run_gui_preview(procs, gui_process, snap.code).gui_process
                       /\ ev' = [e EXCEPT !.path = "preview"]
                       /\ UNCHANGED << output_area, src, bin, stepVars >>
                  ELSE /\ inFlight' = inFlight + 1
                       /\ call' = [lang |-> snap.lang, code |-> snap.code]
                       /\ ev' = [e EXCEPT !.path = "waiting"]
                       /\ UNCHANGED << output_area, procs, gui_process, src, bin >>
    /\ dispatches' = dispatches + 1
    /\ UNCHANGED << tab, buffers, gui_preview, changes, sinceChange, clearedSince, detVars >>

\* execute_code returns after its last step and its cleanup, and run_code
\* shows what it returned.
run_code_return(fault, c, r) ==
    /\ hostAlive
    /\ inFlight > 0
    /\ LET x == execute_code(call.lang, desc[call.lang], bin, src, fault, c, r)
       IN  /\ output_area' = x.output
           /\ bin' = x.bin
           /\ src' = x.src
           /\ ev' = [Event("run_code") EXCEPT !.lang = call.lang, !.code = call.code,
                                              !.path = "plain", !.fault = x.fault,
                                              !.compile = x.compile, !.run = x.run]
    /\ inFlight' = inFlight - 1
    /\ call' = NoCall
    /\ UNCHANGED << tab, buffers, timerActive, remaining, gui_preview, procs, gui_process,
                    desc, hostAlive, changes, dispatches, sinceChange, firedSince,
                    clearedSince, detVars >>

NextSteps ==
    \/ \E l \in UiTabs : EventLoopRuns(inFlight) /\ SelectTab(l) /\ Atomic
    \/ Tick /\ Atomic
    \/ \E text \in Texts : EventLoopRuns(inFlight) /\ on_code_change(text) /\ Atomic
    \/ \E fault \in {"none", "save"} : run_code_call(fault)
    \/ \E c \in CompileResults(call.lang, {Ok("compile"), Failed("compile")}),
          r \in {Ok("run"), Failed("run")} :
          run_code_return("none", c, r)
    \/ EventLoopRuns(inFlight) /\ clear_output /\ Atomic
    \/ \E i \in 1..MaxProcs : EventLoopRuns(inFlight) /\ ProcessStarted(i) /\ Atomic
    \/ \E i \in 1..MaxProcs, status \in {"NormalExit", "CrashExit"} :
          EventLoopRuns(inFlight) /\ ProcessFinished(i, status) /\ Atomic

SpecSteps == Init /\ [][NextSteps]_vars

(* ------------------------------- claims -------------------------------- *)

Alive == { i \in 1..Len(procs) : procs[i].alive }

\* C1: a burst of edits, each arriving while the countdown restarted by the
\* previous one is still pending, leads to exactly one dispatch: the countdown
\* is pending, due 1.5 s after the last edit, exactly while no dispatch has
\* followed that edit; a dispatch runs only when 1.5 s have passed since the
\* last edit; and no second dispatch follows the first.
C1_OneDispatchPerBurst ==
    /\ firedSince <= 1
    /\ timerActive <=> (changes > 0 /\ firedSince = 0)
    /\ timerActive => remaining = Interval - sinceChange
    /\ ev.op = "run_code" => sinceChange = Interval

\* Two edits, then the first dispatch of the run.
C1_Witness ==
    /\ ev.op = "run_code"
    /\ changes = 2
    /\ dispatches = 1
    /\ firedSince = 1

C3_OnePreviewAlive ==
    /\ Cardinality(Alive) <= 1
    /\ (ev.op = "run_code" /\ ev.path = "preview" /\ Len(procs) >= 2) =>
           (Alive = {gui_process} /\ procs[gui_process].code = ev.code)

\* C4: after a dispatch of a compiled language has returned, its binary does
\* not exist (a deletion that was attempted and failed apart).
C4_BinaryGone ==
    (ev.op = "run_code" /\ ev.path = "plain" /\ ev.lang \in Compiled
        /\ ev.fault # "remove") => ~bin[BinaryOf(ev.lang)]

\* C5: every failure during a dispatch ends as text in the output display, and
\* none leaves run_code.
C5_FailuresBecomeText ==
    (ev.op = "run_code"
        /\ (ev.fault # "none" \/ ev.compile.kind = "raise" \/ ev.run.kind = "raise"))
    => (hostAlive /\ ev.path = "plain" /\ output_area = ExceptionText)

\* C6: the signal shown when a preview child exits is that of the exit status
\* of the child that exited.
C6_SignalOfExitedChild ==
    ev.op = "on_gui_finished" =>
        gui_preview = (IF ev.status = "NormalExit" THEN LabelFinished ELSE LabelError)

\* C7: a dispatch uses the language selected when it fires and the text that
\* language's editor holds then: these are what is staged, what the source
\* file gets and what the preview child is started with.
C7_SnapshotAtFireTime ==
    ev.op = "run_code" =>
        /\ ev.lang = tab
        /\ ev.code = buffers[tab]
        /\ ev.path # "escaped" =>
               desc[tab] = [exists |-> TRUE, language |-> tab, code |-> buffers[tab]]
        /\ ev.path = "preview" => procs[gui_process].code = buffers[tab]
        /\ (ev.path = "plain" /\ tab \in SourceLangs /\ ev.fault \notin {"read", "write"}) =>
               (src[tab].exists /\ src[tab].code = buffers[tab])

\* The one edit of the run was made in another editor than the one selected
\* when the dispatch fired.
C7_Witness ==
    /\ ev.op = "run_code"
    /\ ev.path = "plain"
    /\ changes = 1
    /\ buffers[tab] = <<>>
    /\ \E l \in language_cmds : l # tab /\ buffers[l] # <<>>

\* C8: a dispatch takes the preview path exactly when the language is Python
\* and the text names Tkinter or PyQt6.  The preview path runs no step and
\* leaves the output display alone; every other dispatch starts no process and
\* shows the result; both stage the descriptor.
HasMarker(lang, code) ==
    lang = "Python" /\ \E i \in 1..Len(code) : code[i] \in {"Tkinter", "PyQt6"}

C8_PreviewRouting ==
    [][ ev'.op = "run_code" =>
          /\ desc'[ev'.lang] = [exists |-> TRUE, language |-> ev'.lang, code |-> ev'.code]
          /\ IF HasMarker(ev'.lang, ev'.code)
             THEN /\ ev'.path = "preview"
                  /\ ev'.compile = NoStep /\ ev'.run = NoStep
                  /\ output_area' = output_area
                  /\ Len(procs') = Len(procs) + 1
             ELSE /\ ev'.path = "plain"
                  /\ Len(procs') = Len(procs) ]_vars

\* C9: the run step takes place only after the compile step of the same
\* dispatch exited with 0; after a compile step that exited with another code
\* no run step takes place and the payload is the compiler's stderr.
C9_RunOnlyAfterCompile ==
    (ev.op = "run_code" /\ ev.path = "plain" /\ ev.lang \in Compiled) =>
        /\ ev.run # NoStep => (ev.compile.kind = "exit" /\ ev.compile.rc = 0)
        /\ (ev.compile.kind = "exit" /\ ev.compile.rc # 0) =>
               (ev.run = NoStep /\ output_area = ev.compile.stderr)

\* C10: the payload of a plain dispatch is one stream of one step: stdout of
\* the run step that exited with 0, else stderr of the step that failed, or
\* the message of the exception; and the payload of a failed dispatch is not
\* empty.
C10_OneStreamOfOneStep ==
    (ev.op = "run_code" /\ ev.path = "plain") =>
        IF ev.fault # "none" \/ ev.compile.kind = "raise" \/ ev.run.kind = "raise"
        THEN output_area = ExceptionText
        ELSE IF ev.compile.kind = "exit" /\ ev.compile.rc # 0
        THEN output_area = ev.compile.stderr /\ output_area # <<>>
        ELSE IF ev.run.rc = 0
        THEN output_area = ev.run.stdout
        ELSE output_area = ev.run.stderr /\ output_area # <<>>

\* C11: once an edit has been made and no dispatch has followed it yet, then,
\* unless another edit or a clear comes first, a dispatch eventually fires and
\* reports back: for a program that is not a
\* GUI program the output area shows the text of one of its steps, for a GUI
\* program a preview child has been started with that program.
C11_Reported ==
    /\ ev.op = "run_code"
    /\ IF HasMarker(ev.lang, ev.code)
       THEN /\ gui_process = Len(procs)
            /\ gui_process # 0
            /\ procs[gui_process].code = ev.code
            /\ procs[gui_process].state = "Starting"
       ELSE /\ ev.path = "plain"
            /\ output_area \in {ev.compile.stdout, ev.compile.stderr,
                                ev.run.stdout, ev.run.stderr, ExceptionText}

C11_DispatchReportsBack ==
    \A n \in 1..MaxChanges :
        (changes = n /\ firedSince = 0 /\ ~clearedSince)
            ~> (C11_Reported \/ changes > n \/ clearedSince)

\* C13, as claimed: after a clear action every preview child that is still
\* alive has been sent a termination signal, whether the current handle is
\* Starting or Running.
C13_ClearSignalsEveryChild ==
    ev.op = "clear_output" => \A i \in Alive : procs[i].signalled

\* C13, amended: the clear action sends a termination signal to the child of
\* the current handle exactly when that handle is Running; it sends none to a
\* handle that is still Starting and none to a superseded child, and it
\* changes neither the state of any handle nor the preview label.
C13_ClearSignalsRunningHandle ==
    [][ ev'.op = "clear_output" =>
          /\ Len(procs') = Len(procs)
          /\ \A i \in 1..Len(procs) :
                /\ procs'[i].state = procs[i].state
                /\ procs'[i].alive = procs[i].alive
                /\ procs'[i].signalled =
                      (procs[i].signalled \/ (i = gui_process /\ procs[i].state = "Running"))
          /\ gui_preview' = gui_preview ]_vars

\* A clear has signalled the running child of the current handle.
C13_Witness ==
    /\ ev.op = "clear_output"
    /\ gui_process # 0
    /\ procs[gui_process].state = "Running"
    /\ procs[gui_process].alive
    /\ procs[gui_process].signalled

\* C14: every startPreview moves the preview label to a running state, and
\* while the child of the current handle is alive the label shows neither
\* Finished nor Errored.
C14_LabelFollowsCurrentChild ==
    /\ (gui_process # 0 /\ procs[gui_process].alive) =>
           gui_preview \notin {LabelFinished, LabelError}
    /\ (ev.op = "run_code" /\ ev.path = "preview") =>
           gui_preview \notin {LabelInitial, LabelFinished, LabelError}

\* C16: startPreview sends a termination signal to the child of the current
\* handle exactly when that handle is Running, does not wait for it to exit,
\* leaves every other handle alone, and starts the new child, which becomes
\* the current handle.
C16_SignalThenSpawn ==
    [][ (ev'.op = "run_code" /\ ev'.path = "preview") =>
          /\ Len(procs') = Len(procs) + 1
          /\ gui_process' = Len(procs')
          /\ procs'[gui_process'].alive
          /\ procs'[gui_process'].state = "Starting"
          /\ procs'[gui_process'].code = ev'.code
          /\ \A i \in 1..Len(procs) :
                IF i = gui_process /\ procs[i].state = "Running"
                THEN procs'[i] = [procs[i] EXCEPT !.signalled = TRUE]
                ELSE procs'[i] = procs[i] ]_vars

\* A second preview has been started while the child of the first was running:
\* that child has been signalled and is still alive.
C16_Witness ==
    /\ ev.op = "run_code"
    /\ ev.path = "preview"
    /\ gui_process = 2
    /\ procs[1].alive
    /\ procs[1].signalled
    /\ procs[1].state = "Running"

\* C18: a dispatch needs an edit since the previous dispatch: there are never
\* more dispatches than edits, at most one dispatch follows an edit, and the
\* timer is stopped whenever a dispatch has returned.
C18_DispatchNeedsChange ==
    /\ dispatches <= changes
    /\ firedSince <= 1
    /\ ev.op = "run_code" => (~timerActive /\ firedSince = 1)

\* Two edits, each followed by its dispatch.
C18_Witness ==
    /\ ev.op = "run_code"
    /\ changes = 2
    /\ dispatches = 2

C12_OneDispatchInFlight ==
    [][ /\ inFlight <= 1
        /\ inFlight' <= 1
        /\ inFlight = 1 =>
              \/ /\ inFlight' = 0
                 /\ ev'.op = "run_code"
                 /\ ev'.lang = call.lang
                 /\ UNCHANGED << tab, buffers, timerActive, procs, gui_process, desc,
                                 changes, dispatches >>
              \/ UNCHANGED << tab, buffers, timerActive, remaining, output_area,
                              gui_preview, procs, gui_process, desc, src, bin, changes,
                              dispatches, inFlight, call >> ]_vars

\* The second dispatch of the run waits in its toolchain step, the first has
\* returned.
C12_Witness ==
    /\ inFlight = 1
    /\ dispatches = 2
    /\ ev.path = "waiting"
    /\ ev.lang = call.lang

====
